---------------------------- MODULE Spec2Model ----------------------------
(***************************************************************************)
(* MfxVTK Open Mesh Effect plug-in (mfx_vtk_plugin.cpp).                   *)
(*                                                                         *)
(* The model follows one cook request of the host through the dispatcher   *)
(* (identity check, then cook) and, for the "Volume sampling" effect,      *)
(* through every iteration of the rejection loop of                        *)
(* VtkVolumePointSamplerEffect::vtkCook_inner.                             *)
(*                                                                         *)
(* Abstractions.  Space is an integer grid: every axis of the bounding box *)
(* has GridRes cells.  A boundary mesh is described by its face count, the *)
(* face count of its triangulation and the "radius" of the solid it        *)
(* bounds; the geometry kernel's signed distance at a grid point is        *)
(* x + y + z - radius (a corner solid), so that distances are negative,    *)
(* zero and positive on different points.  Doubles that are only compared  *)
(* with DBL_EPSILON are counted in units of DBL_EPSILON / 2.               *)
(***************************************************************************)
EXTENDS Integers, Sequences, FiniteSets, TLC

\* Largest requested number of points.
MaxN == 2
\* Number of grid cells along each axis of the bounding box.
GridRes == 2
\* Iterations followed one by one at either end of a loop of full-width
\* counters; the iterations in between are taken in one step.
SingleSteps == 2

---------------------------------------------------------------------------
(* Status codes of ofxCore.h as the plug-in uses them. *)
kOfxStatOK == "kOfxStatOK"
kOfxStatFailed == "kOfxStatFailed"
NoStatus == "none"

(* The effects handed to MfxRegister, in registration order. *)
RegisteredEffects ==
    << "VtkSmoothPolyDataFilterEffect", "VtkWindowedSincPolyDataFilterEffect",
       "VtkPolyDataPointSamplerEffect", "VtkMaskPointsEffect",
       "VtkFeatureEdgesEffect", "VtkVolumePointSamplerEffect",
       "VtkDelaunay3DEffect", "VtkFillHolesEffect", "VtkTubeFilterEffect",
       "VtkQuadricDecimationEffect", "VtkDecimateProEffect",
       "VtkQuadricClusteringEffect", "VtkIdentityEffect" >>

(* A call-counting stub effect: any implementation of the effect contract, *)
(* whose identity check and cook status are arbitrary.                     *)
StubEffect == "StubEffect"

Effects == {RegisteredEffects[k] : k \in DOMAIN RegisteredEffects} \cup {StubEffect}

VolumeSampler == "VtkVolumePointSamplerEffect"

---------------------------------------------------------------------------
(* Doubles compared with DBL_EPSILON, in units of DBL_EPSILON / 2. *)
DBL_EPSILON == 2

DoubleValues == {0, 1, 2, 1600}

is_positive_double(x) == x >= DBL_EPSILON

---------------------------------------------------------------------------
(* Meshes. *)
(* Face counts of the boundary and of its triangulation. *)
MeshShapes == {<<100, 100>>, <<101, 202>>, <<600, 1200>>}
Radii == {0, 1, 2}

(* Triangle meshes on either side of the face count from which the        *)
(* simplified boundary is smaller than the boundary.                       *)
ThresholdShapes == {<<1032, 1032>>, <<1033, 1033>>}

Meshes ==
    {[polys |-> f[1], tris |-> f[2], radius |-> r] : f \in MeshShapes, r \in Radii}
    \cup {[polys |-> f[1], tris |-> f[2], radius |-> 1] : f \in ThresholdShapes}
    \cup {[polys |-> 0, tris |-> 0, radius |-> 0]}

NullMesh == [polys |-> 0, tris |-> 0, radius |-> 0]

(* vtkPolyData::GetBounds: xmin, xmax, ymin, ymax, zmin, zmax. *)
GetBounds(mesh) == <<0, GridRes, 0, GridRes, 0, GridRes>>

(* vtkQuadricDecimation's output bounds a slightly smaller solid. *)
DecimatedRadius(mesh) == IF mesh.radius > 0 THEN mesh.radius - 1 ELSE 0

(* vtkImplicitPolyDataDistance::EvaluateFunction for a predicate built     *)
(* from a surface of the given radius; a surface without faces yields the  *)
(* kernel's "no value", 0.                                                 *)
EvaluateFunction(pred, p) ==
    IF pred.faces = 0 THEN 0 ELSE p[1] + p[2] + p[3] - pred.radius

(* floor(sqrt(n)): static_cast<int>(std::sqrt(n)). *)
IntSqrt(n) == CHOOSE k \in 0..64 : k * k <= n /\ (k + 1) * (k + 1) > n

---------------------------------------------------------------------------
(* Parameters of one request.  Every effect reads only its own fields.     *)
DefaultParams ==
    [number_of_points |-> 0, distribute_uniformly |-> FALSE,
     auto_simplify |-> FALSE, value |-> 0, flag |-> FALSE]

ParamsOf(e) ==
    IF e = VolumeSampler
    THEN {[DefaultParams EXCEPT !.number_of_points = n,
                                !.distribute_uniformly = u,
                                !.auto_simplify = a] :
            n \in 0..MaxN, u \in BOOLEAN, a \in BOOLEAN}
    ELSE IF e \in {"VtkDecimateProEffect", "VtkQuadricDecimationEffect",
                   "VtkFillHolesEffect"}
    THEN {[DefaultParams EXCEPT !.value = v] : v \in DoubleValues}
    ELSE IF e \in {"VtkIdentityEffect", StubEffect}
    THEN {[DefaultParams EXCEPT !.flag = b] : b \in BOOLEAN}
    ELSE {DefaultParams}

(* vtkIsIdentity of each effect; VtkEffect's default is false. *)
vtkIsIdentity(e, p) ==
    CASE e = "VtkDecimateProEffect" -> ~is_positive_double(p.value)
      [] e = "VtkQuadricDecimationEffect" -> ~is_positive_double(p.value)
      [] e = "VtkFillHolesEffect" -> ~is_positive_double(p.value)
      [] e = "VtkIdentityEffect" -> p.flag
      [] e = StubEffect -> p.flag
      [] OTHER -> FALSE

---------------------------------------------------------------------------
(* Parameter declarations.  A numeric literal of the source is the pair    *)
(* <<m, e>> standing for m * 10^e (all literals are non-negative); a value *)
(* is a sequence of such pairs, of length 3 for an integer triple and 1    *)
(* otherwise, tagged with the kind of the C++ type of the literal.         *)
IntLit(n) == [kind |-> "Integer", v |-> << <<n, 0>> >>]
DoubleLit(m, e) == [kind |-> "Double", v |-> << <<m, e>> >>]
BoolLit(b) == [kind |-> "Boolean", v |-> << <<IF b THEN 1 ELSE 0, 0>> >>]
IntTripleLit(a, b, c) == [kind |-> "IntegerTriple", v |-> << <<a, 0>>, <<b, 0>>, <<c, 0>> >>]

(* The order of the literals. *)
DecDigits(m) == CHOOSE k \in 1..9 : 10^(k - 1) <= m /\ m < 10^k
DecMagnitude(a) == DecDigits(a[1]) + a[2]
DecLeq(a, b) ==
    IF a[1] = 0 THEN TRUE
    ELSE IF b[1] = 0 THEN FALSE
    ELSE IF DecMagnitude(a) # DecMagnitude(b) THEN DecMagnitude(a) < DecMagnitude(b)
    ELSE LET lo == IF a[2] < b[2] THEN a[2] ELSE b[2]
         IN  a[1] * 10^(a[2] - lo) <= b[1] * 10^(b[2] - lo)

(* AddParam(name, default): the kind of the parameter is the kind of the   *)
(* default.  Range(min, max) of the returned descriptor.                   *)
AddParam(name, default) ==
    [name |-> name, kind |-> default.kind, default |-> default.v,
     ranged |-> FALSE, min |-> default.v, max |-> default.v]

RangeSwapped(d, lo, hi) == [d EXCEPT !.ranged = TRUE, !.min = hi.v, !.max = lo.v]
Range(d, lo, hi) == [d EXCEPT !.ranged = TRUE, !.min = lo.v, !.max = hi.v]

(* GetParam<T>(name): a read of the parameter name as kind T. *)
GetParam(kind, name) == [name |-> name, kind |-> kind]

(* vtkDescribe of each effect: the descriptors it declares. *)
vtkDescribe(e) ==
    CASE e = "VtkSmoothPolyDataFilterEffect" ->
            { Range(AddParam("NumberOfIterations", IntLit(20)), IntLit(1), IntLit(1000)),
              Range(AddParam("RelaxationFactor", DoubleLit(1, -1)), DoubleLit(0, 0), DoubleLit(1000, 0)),
              AddParam("BoundarySmoothing", BoolLit(TRUE)),
              AddParam("FeatureEdgeSmoothing", BoolLit(FALSE)),
              Range(AddParam("FeatureAngle", DoubleLit(45, 0)), DoubleLit(1, -3), DoubleLit(180, 0)),
              Range(AddParam("EdgeAngle", DoubleLit(15, 0)), DoubleLit(1, -3), DoubleLit(180, 0)),
              Range(AddParam("Convergence", DoubleLit(0, 0)), DoubleLit(0, 0), DoubleLit(1000, 0)) }
      [] e = "VtkWindowedSincPolyDataFilterEffect" ->
            { Range(AddParam("NumberOfIterations", IntLit(20)), IntLit(1), IntLit(1000)),
              Range(AddParam("PassBand", DoubleLit(1, -1)), DoubleLit(1, -3), DoubleLit(2, 0)),
              AddParam("BoundarySmoothing", BoolLit(TRUE)),
              AddParam("NonManifoldSmoothing", BoolLit(FALSE)),
              AddParam("FeatureEdgeSmoothing", BoolLit(FALSE)),
              Range(AddParam("FeatureAngle", DoubleLit(45, 0)), DoubleLit(1, -3), DoubleLit(180, 0)),
              Range(AddParam("EdgeAngle", DoubleLit(15, 0)), DoubleLit(1, -3), DoubleLit(180, 0)),
              AddParam("NormalizeCoordinates", BoolLit(TRUE)) }
      [] e = "VtkPolyDataPointSamplerEffect" ->
            { Range(AddParam("Distance", DoubleLit(1, -1)), DoubleLit(1, -6), DoubleLit(1, 6)),
              AddParam("GenerateEdgePoints", BoolLit(TRUE)),
              AddParam("GenerateInteriorPoints", BoolLit(TRUE)),
              AddParam("InterpolatePointData", BoolLit(FALSE)) }
      [] e = "VtkVolumePointSamplerEffect" ->
            { Range(AddParam("NumberOfPoints", IntLit(200)), IntLit(1), DoubleLit(1, 6)),
              AddParam("DistributeUniformly", BoolLit(TRUE)),
              AddParam("AutoSimplify", BoolLit(TRUE)) }
      [] e = "VtkMaskPointsEffect" ->
            { AddParam("RandomMode", BoolLit(TRUE)),
              Range(AddParam("RandomModeType", IntLit(0)), IntLit(0), IntLit(3)),
              AddParam("OnRatio", IntLit(2)),
              Range(AddParam("MaximumNumberOfPoints", IntLit(10000)), IntLit(0), IntLit(10000000)) }
      [] e = "VtkFeatureEdgesEffect" ->
            { Range(AddParam("FeatureAngle", IntLit(30)), DoubleLit(1, -6), DoubleLit(180, 0)),
              AddParam("FeatureEdges", BoolLit(TRUE)),
              AddParam("BoundaryEdges", BoolLit(FALSE)),
              AddParam("NonManifoldEdges", BoolLit(FALSE)),
              AddParam("ManifoldEdges", BoolLit(FALSE)) }
      [] e = "VtkDelaunay3DEffect" ->
            { AddParam("ExtractSurface", BoolLit(FALSE)),
              AddParam("ExtractWireframe", BoolLit(TRUE)) }
      [] e = "VtkTubeFilterEffect" ->
            { Range(AddParam("Radius", DoubleLit(5, -2)), DoubleLit(1, -6), DoubleLit(1, 6)),
              Range(AddParam("NumberOfSides", IntLit(6)), IntLit(3), IntLit(1000)),
              AddParam("Capping", BoolLit(TRUE)) }
      [] e = "VtkDecimateProEffect" ->
            { Range(AddParam("TargetReduction", DoubleLit(8, -1)), IntLit(0), DoubleLit(999999, -6)),
              AddParam("PreserveTopology", BoolLit(FALSE)),
              Range(AddParam("FeatureAngle", DoubleLit(15, 0)), DoubleLit(1, -3), DoubleLit(180, 0)),
              AddParam("Splitting", BoolLit(TRUE)),
              Range(AddParam("SplitAngle", DoubleLit(45, 0)), DoubleLit(1, -3), DoubleLit(180, 0)),
              Range(AddParam("MaximumError", DoubleLit(1, -2)), IntLit(0), DoubleLit(1, 6)),
              AddParam("AbsoluteError", BoolLit(FALSE)),
              AddParam("BoundaryVertexDeletion", BoolLit(TRUE)),
              Range(AddParam("InflectionPointRatio", DoubleLit(10, 0)), DoubleLit(1001, -3), DoubleLit(1, 6)),
              Range(AddParam("Degree", IntLit(25)), IntLit(3), IntLit(1000)) }
      [] e = "VtkQuadricDecimationEffect" ->
            { Range(AddParam("TargetReduction", DoubleLit(8, -1)), IntLit(0), DoubleLit(999999, -6)),
              AddParam("PreserveTopology", BoolLit(FALSE)) }
      [] e = "VtkQuadricClusteringEffect" ->
            { Range(AddParam("NumberOfDivisions", IntTripleLit(256, 256, 256)),
                    IntTripleLit(2, 2, 2), IntTripleLit(65535, 65535, 65535)),
              AddParam("AutoAdjustNumberOfDivisions", BoolLit(TRUE)) }
      [] e = "VtkFillHolesEffect" ->
            { Range(AddParam("HoleSize", DoubleLit(1, 0)), IntLit(0), DoubleLit(1, 6)) }
      [] e = "VtkIdentityEffect" ->
            { AddParam("ActionIsIdentity", BoolLit(FALSE)) }
      [] OTHER ->
            { AddParam("ActionIsIdentity", BoolLit(FALSE)) }

(* The parameters vtkIsIdentity of each effect reads, with the kind asked. *)
IdentityReads(e) ==
    CASE e \in {"VtkDecimateProEffect", "VtkQuadricDecimationEffect"} ->
            { GetParam("Double", "TargetReduction") }
      [] e = "VtkFillHolesEffect" -> { GetParam("Double", "HoleSize") }
      [] e \in {"VtkIdentityEffect", StubEffect} ->
            { GetParam("Boolean", "ActionIsIdentity") }
      [] OTHER -> {}

(* The parameters vtkCook of each effect reads, with the kind asked. *)
CookReads(e) ==
    CASE e = "VtkSmoothPolyDataFilterEffect" ->
            { GetParam("Integer", "NumberOfIterations"),
              GetParam("Double", "Convergence"),
              GetParam("Boolean", "BoundarySmoothing"),
              GetParam("Double", "RelaxationFactor"),
              GetParam("Boolean", "FeatureEdgeSmoothing"),
              GetParam("Double", "FeatureAngle"),
              GetParam("Double", "EdgeAngle") }
      [] e = "VtkWindowedSincPolyDataFilterEffect" ->
            { GetParam("Integer", "NumberOfIterations"),
              GetParam("Double", "PassBand"),
              GetParam("Boolean", "BoundarySmoothing"),
              GetParam("Boolean", "NonManifoldSmoothing"),
              GetParam("Boolean", "FeatureEdgeSmoothing"),
              GetParam("Double", "FeatureAngle"),
              GetParam("Double", "EdgeAngle"),
              GetParam("Boolean", "NormalizeCoordinates") }
      [] e = "VtkPolyDataPointSamplerEffect" ->
            { GetParam("Double", "Distance"),
              GetParam("Boolean", "GenerateEdgePoints"),
              GetParam("Boolean", "GenerateInteriorPoints"),
              GetParam("Boolean", "InterpolatePointData") }
      [] e = "VtkVolumePointSamplerEffect" ->
            { GetParam("Integer", "NumberOfPoints"),
              GetParam("Boolean", "DistributeUniformly"),
              GetParam("Boolean", "AutoSimplify") }
      [] e = "VtkMaskPointsEffect" ->
            { GetParam("Boolean", "RandomMode"),
              GetParam("Integer", "RandomModeType"),
              GetParam("Integer", "OnRatio"),
              GetParam("Integer", "MaximumNumberOfPoints") }
      [] e = "VtkFeatureEdgesEffect" ->
            { GetParam("Double", "FeatureAngle"),
              GetParam("Boolean", "FeatureEdges"),
              GetParam("Boolean", "BoundaryEdges"),
              GetParam("Boolean", "NonManifoldEdges"),
              GetParam("Boolean", "ManifoldEdges") }
      [] e = "VtkDelaunay3DEffect" ->
            { GetParam("Boolean", "ExtractSurface"),
              GetParam("Boolean", "ExtractWireframe") }
      [] e = "VtkTubeFilterEffect" ->
            { GetParam("Double", "Radius"),
              GetParam("Integer", "NumberOfSides"),
              GetParam("Boolean", "Capping") }
      [] e = "VtkDecimateProEffect" ->
            { GetParam("Double", "TargetReduction"),
              GetParam("Boolean", "PreserveTopology"),
              GetParam("Double", "FeatureAngle"),
              GetParam("Boolean", "Splitting"),
              GetParam("Double", "SplitAngle"),
              GetParam("Double", "MaximumError"),
              GetParam("Boolean", "AbsoluteError"),
              GetParam("Boolean", "BoundaryVertexDeletion"),
              GetParam("Double", "InflectionPointRatio"),
              GetParam("Integer", "Degree") }
      [] e = "VtkQuadricDecimationEffect" ->
            { GetParam("Double", "TargetReduction"),
              GetParam("Boolean", "PreserveTopology") }
      [] e = "VtkQuadricClusteringEffect" ->
            { GetParam("IntegerTriple", "NumberOfDivisions"),
              GetParam("Boolean", "AutoAdjustNumberOfDivisions") }
      [] e = "VtkFillHolesEffect" -> { GetParam("Double", "HoleSize") }
      [] OTHER -> {}

(* What vtkIsIdentity prints to the standard output: VtkFillHolesEffect    *)
(* prints hole_size and DBL_EPSILON, no other identity check prints.       *)
NoOutput == <<>>
vtkIsIdentityPrints(e, p) ==
    IF e = "VtkFillHolesEffect" THEN <<p.value, DBL_EPSILON>> ELSE NoOutput

---------------------------------------------------------------------------
(* AdditiveRecurrence<3> of utils.h: one irrational increment per          *)
(* dimension, wrapped modulo 1.  Fractions are counted in 1/AR_Modulus.    *)
AR_Modulus == 10
AR_Alpha == <<8, 7, 5>>
AR_Seed == <<0, 0, 0>>
NoGenerator == <<>>

AR_Next(g) == [d \in 1..3 |-> (g[d] + AR_Alpha[d]) % AR_Modulus]

(* GetRangeValue(i, low, high): component i mapped into [low, high). *)
AR_GetRangeValue(g, d, low, high) == low + (g[d + 1] * (high - low)) \div AR_Modulus

(* vtkMinimalStandardRandomSequence::GetRangeValue(low, high) for a draw   *)
(* that fell into cell u of GridRes equal cells of [0, 1).                 *)
UnitCells == 0..(GridRes - 1)
VtkGetRangeValue(u, low, high) == low + (u * (high - low)) \div GridRes

(* The three pseudo-random draws one attempt can see; the pseudo-random    *)
(* stream is not consulted when distributing uniformly.                    *)
VtkDraws(uniformly) ==
    IF uniformly THEN {<<0, 0, 0>>} ELSE UnitCells \X UnitCells \X UnitCells

(* The generator one cook starts from when it declares                     *)
(* random_generator_custom; prev is what the previous cook left behind.    *)
NewGeneratorStatic(prev) == IF prev = NoGenerator THEN AR_Seed ELSE prev
NewGenerator(prev) == AR_Seed

(* A lambda that advances the additive recurrence once per candidate.      *)
get_random_uniformOncePerCandidate(uniformly, g, u, d, low, high) ==
    IF uniformly
    THEN LET g1 == IF d = 0 THEN AR_Next(g) ELSE g
         IN  [gen |-> g1, value |-> AR_GetRangeValue(g1, d, low, high)]
    ELSE [gen |-> g, value |-> VtkGetRangeValue(u, low, high)]

(* The lambda get_random_uniform: advances the selected generator, then    *)
(* reads one value.  u is the cell of the pseudo-random draw.              *)
get_random_uniform(uniformly, g, u, d, low, high) ==
    IF uniformly
    THEN LET g1 == AR_Next(g)
         IN  [gen |-> g1, value |-> AR_GetRangeValue(g1, d, low, high)]
    ELSE [gen |-> g, value |-> VtkGetRangeValue(u, low, high)]

---------------------------------------------------------------------------
(* vtkPoints / vtkFloatArray: a length and the slots written so far.       *)
(* SetNumberOfPoints / SetNumberOfTuples set the length and initialise     *)
(* nothing; shrinking drops the slots past the new length.                 *)
NewArray == [len |-> 0, data |-> [k \in {} |-> 0]]

SetNumberOfTuples(a, n) ==
    [len |-> n, data |-> [k \in {j \in DOMAIN a.data : j < n} |-> a.data[k]]]

SetValue(a, idx, v) ==
    [a EXCEPT !.data = [k \in (DOMAIN a.data) \cup {idx} |->
                            IF k = idx THEN v ELSE a.data[k]]]

FullyWritten(a) == DOMAIN a.data = 0..(a.len - 1)

---------------------------------------------------------------------------
(* vtkQuadricDecimation with SetTargetReduction(num / den): the kernel     *)
(* removes that fraction of the n triangles it is given.                   *)
QuadricDecimation(n, num, den) == n - (n * num) \div den

(* The predicate-building part of vtkCook_inner (auto simplification).     *)
(* sqrt(n) rounded to the nearest integer. *)
RoundSqrt(n) ==
    CHOOSE k \in 0..64 : (2 * k - 1) * (2 * k - 1) <= 4 * n /\ 4 * n < (2 * k + 1) * (2 * k + 1)

TargetPolycountRounded(input_polycount) == 1000 + RoundSqrt(input_polycount)
TargetPolycount(input_polycount) == 1000 + IntSqrt(input_polycount)

(* auto_simplify && input_polydata->GetNumberOfPolys() > 100. *)
ShouldSimplifyInclusive(auto_simplify, polys) == auto_simplify /\ polys >= 100
ShouldSimplify(auto_simplify, polys) == auto_simplify /\ polys > 100

(* target_reduction < 1, for target_reduction the quotient of the double   *)
(* of target_polycount by input_polycount.                                 *)
TargetReductionBelowOneInclusive(target_polycount, input_polycount) ==
    target_polycount <= input_polycount
TargetReductionBelowOne(target_polycount, input_polycount) ==
    target_polycount < input_polycount

BuildPredicate(mesh, auto_simplify) ==
    IF ShouldSimplify(auto_simplify, mesh.polys)
    THEN LET input_polycount == mesh.tris
             target_polycount == TargetPolycount(input_polycount)
         IN  IF TargetReductionBelowOne(target_polycount, input_polycount)
             THEN [source |-> "decimated", entered |-> TRUE,
                   faces |-> QuadricDecimation(input_polycount,
                                               target_polycount, input_polycount),
                   radius |-> DecimatedRadius(mesh),
                   input_polycount |-> input_polycount,
                   target_polycount |-> target_polycount]
             ELSE [source |-> "input", entered |-> TRUE,
                   faces |-> mesh.polys, radius |-> mesh.radius,
                   input_polycount |-> input_polycount,
                   target_polycount |-> target_polycount]
    ELSE [source |-> "input", entered |-> FALSE,
          faces |-> mesh.polys, radius |-> mesh.radius,
          input_polycount |-> 0, target_polycount |-> 0]

NoPredicate ==
    [source |-> "none", entered |-> FALSE, faces |-> 0, radius |-> 0,
     input_polycount |-> 0, target_polycount |-> 0]

(* int arithmetic of the loop condition: the product 10 * n of two ints,    *)
(* computed on the halves of n so that no intermediate value leaves the    *)
(* range of an int.  fits tells whether the product is an int; value is    *)
(* the product reduced modulo 2^32 into the range of an int.               *)
INT_MAX == 2147483647

Times10Short(n) ==
    LET product == 10 * (n % 65536)
        low == product % 65536
    IN  [fits |-> 10 * (n \div 65536) = 0 /\ product < 32768,
         value |-> IF low >= 32768 THEN low - 65536 ELSE low]

Times10Int32(n) ==
    LET a == n \div 65536
        b == n % 65536
        low == (10 * b) % 65536
        top == 10 * a + (10 * b) \div 65536
        high == top % 65536
    IN  [fits |-> top < 32768,
         value |-> IF high >= 32768
                   THEN (high - 65536) * 65536 + low
                   ELSE high * 65536 + low]

(* The pieces of the rejection loop. *)
AttemptBudgetOffByOne(number_of_points) == 10 * number_of_points + 1
AttemptBudgetUnscaled(number_of_points) == 10
AttemptBudget(number_of_points) == 10 * number_of_points

LoopGuardInclusive(ii, iteration, number_of_points) ==
    ii <= number_of_points /\ iteration <= AttemptBudget(number_of_points)
LoopGuard(ii, iteration, number_of_points) ==
    ii < number_of_points /\ iteration < AttemptBudget(number_of_points)

AcceptsOnSurface(distance) == distance <= 0
Accepts(distance) == distance < 0

GaveUpNever(ii, number_of_points) == FALSE
GaveUp(ii, number_of_points) == ii < number_of_points

(* The length the arrays are cut to after a short loop. *)
FinalLengthIterations(ii, iteration) == iteration
FinalLength(ii, iteration) == ii

CookStatusFailsWhenShort(ii, number_of_points) ==
    IF ii < number_of_points THEN kOfxStatFailed ELSE kOfxStatOK
CookStatus(ii, number_of_points) == kOfxStatOK

NoCandidate == [p |-> <<>>, d |-> 0]
NoWarning == <<>>
---------------------------------------------------------------------------
VARIABLES
    dstate,            \* dispatcher: Idle, CheckIdentity, Identity, Cooking, Done
    effect,            \* the effect the request is for
    params,            \* the parameter values of the request
    input,             \* input_polydata
    output,            \* output_polydata: [kind, mesh]
    identityCalls,     \* calls of isIdentity in this request
    cookCalls,         \* calls of cook in this request
    isIdentityResult,  \* what isIdentity returned (FALSE before the call)
    cookStatus,        \* what cook returned
    reported,          \* the status handed to the host
    declared,          \* the descriptors vtkDescribe declared for the effect
    identityOutput,    \* what isIdentity printed in this request
    pc,                \* vtkCook_inner: idle, loop, test (trapped: process ended)
    pred,              \* what poly_data_distance was built from
    points,            \* the vtkPoints of the output
    distance_arr,      \* the "distance" vtkFloatArray of the output
    gen,               \* random_generator_custom
    i,                 \* accepted count
    iteration_count,   \* attempt count
    cand,              \* x, y, z and distance of the last attempt
    draws,             \* calls of get_random_uniform in this cook
    evals,             \* calls of EvaluateFunction in this cook
    warning,           \* the WARNING line printed, <<iterations, points>>
    zeroOutcome,       \* outcome of the last cook asked for zero points
    uniformRef         \* a remembered outcome of a uniform cook

dispatcherVars ==
    <<dstate, effect, params, input, output, identityCalls, cookCalls,
      isIdentityResult, cookStatus, reported, declared, identityOutput>>
samplerVars ==
    <<pc, pred, points, distance_arr, gen, i, iteration_count, cand, draws,
      evals, warning>>
historyVars == <<zeroOutcome, uniformRef>>
vars == <<dispatcherVars, samplerVars, historyVars>>

N == params.number_of_points

EmptyOutput == [kind |-> "empty", mesh |-> NullMesh]
NoOutcome == [status |-> NoStatus, points |-> NewArray,
              distance |-> NewArray, warning |-> NoWarning]
NoRef == [input |-> NullMesh, params |-> DefaultParams, status |-> NoStatus,
          points |-> NewArray, distance |-> NewArray, later |-> FALSE]

Init ==
    /\ dstate = "Idle"
    /\ effect = VolumeSampler
    /\ params = DefaultParams
    /\ input = NullMesh
    /\ output = EmptyOutput
    /\ identityCalls = 0
    /\ cookCalls = 0
    /\ isIdentityResult = FALSE
    /\ cookStatus = NoStatus
    /\ reported = NoStatus
    /\ declared = {}
    /\ identityOutput = NoOutput
    /\ pc = "idle"
    /\ pred = NoPredicate
    /\ points = NewArray
    /\ distance_arr = NewArray
    /\ gen = NoGenerator
    /\ i = 0
    /\ iteration_count = 0
    /\ cand = NoCandidate
    /\ draws = 0
    /\ evals = 0
    /\ warning = NoWarning
    /\ zeroOutcome = NoOutcome
    /\ uniformRef = NoRef

---------------------------------------------------------------------------
(* The dispatcher (VtkEffect, section 4.4): CheckIdentity, then Identity   *)
(* or Cooking, then Done.                                                  *)

(* Where the dispatcher goes once cook has returned. *)
AfterCookRetrying(status) == IF status = kOfxStatOK THEN "Done" ELSE "Cooking"
AfterCook(status) == "Done"

(* Where the dispatcher goes once isIdentity has returned. *)
AfterCheckAlwaysCooking(identity) == "Cooking"
AfterCheck(identity) == IF identity THEN "Identity" ELSE "Cooking"

(* The status the dispatcher hands to the host for a cook status. *)
ReportedStatus(status) == status

(* The host selects an effect, which declares its parameters, sets the     *)
(* parameter values and asks for a cook: a fresh request with a fresh      *)
(* output mesh.                                                            *)
BeginRequest(e, p, m) ==
    /\ dstate = "Idle"
    /\ dstate' = "CheckIdentity"
    /\ effect' = e
    /\ declared' = vtkDescribe(e)
    /\ params' = p
    /\ input' = m
    /\ UNCHANGED <<output, identityCalls, cookCalls, isIdentityResult,
                   cookStatus, reported, identityOutput, samplerVars,
                   historyVars>>

(* The host takes the output and the status; the request is over and the   *)
(* locals of the cook are gone.  What random_generator_custom last held is *)
(* kept: the next cook must not depend on it.                              *)
Release ==
    /\ dstate = "Done"
    /\ dstate' = "Idle"
    /\ effect' = VolumeSampler
    /\ params' = DefaultParams
    /\ input' = NullMesh
    /\ output' = EmptyOutput
    /\ identityCalls' = 0
    /\ cookCalls' = 0
    /\ isIdentityResult' = FALSE
    /\ cookStatus' = NoStatus
    /\ reported' = NoStatus
    /\ declared' = {}
    /\ identityOutput' = NoOutput
    /\ pc' = "idle"
    /\ pred' = NoPredicate
    /\ points' = NewArray
    /\ distance_arr' = NewArray
    /\ i' = 0
    /\ iteration_count' = 0
    /\ cand' = NoCandidate
    /\ draws' = 0
    /\ evals' = 0
    /\ warning' = NoWarning
    /\ uniformRef' = IF uniformRef = NoRef THEN uniformRef
                      ELSE [uniformRef EXCEPT !.later = TRUE]
    /\ UNCHANGED <<gen, zeroOutcome>>

Request ==
    \E e \in Effects : \E p \in ParamsOf(e) : \E m \in Meshes :
        BeginRequest(e, p, m)

CheckIdentity ==
    /\ dstate = "CheckIdentity"
    /\ identityCalls' = identityCalls + 1
    /\ isIdentityResult' = vtkIsIdentity(effect, params)
    /\ identityOutput' = vtkIsIdentityPrints(effect, params)
    /\ dstate' = AfterCheck(isIdentityResult')
    /\ UNCHANGED <<effect, params, input, output, cookCalls, cookStatus,
                   reported, declared, samplerVars, historyVars>>

(* The identity path: the output is a shallow copy of the input. *)
Identity ==
    /\ dstate = "Identity"
    /\ output' = [kind |-> "mesh", mesh |-> input]
    /\ reported' = kOfxStatOK
    /\ dstate' = "Done"
    /\ UNCHANGED <<effect, params, input, identityCalls, cookCalls,
                   isIdentityResult, cookStatus, declared, identityOutput,
                   samplerVars, historyVars>>

---------------------------------------------------------------------------
(* vtkCook of the effects that are one call into the geometry kernel.      *)

(* Faces a decimator removes from n triangles for a target reduction v;    *)
(* 1600 stands for the default 0.8, smaller values remove no face of a     *)
(* mesh this small.                                                        *)
RemovedFaces(n, v) == IF v >= 1600 THEN (n * 4) \div 5 ELSE 0

(* output_polydata after vtkCook.  The decimators triangulate first; the   *)
(* identity effect shallow-copies; vtkFillHolesFilter fills no hole with a *)
(* hole size of zero; every other filter result is opaque.                 *)
FilterOutput(e, p, m) ==
    CASE e = "VtkIdentityEffect" -> [kind |-> "mesh", mesh |-> m]
      [] e = "VtkFillHolesEffect" /\ ~is_positive_double(p.value) ->
            [kind |-> "mesh", mesh |-> m]
      [] e \in {"VtkDecimateProEffect", "VtkQuadricDecimationEffect"} ->
            [kind |-> "mesh",
             mesh |-> [polys |-> m.tris - RemovedFaces(m.tris, p.value),
                       tris |-> m.tris - RemovedFaces(m.tris, p.value),
                       radius |-> m.radius]]
      [] OTHER -> [kind |-> "filtered", mesh |-> m]

(* input_polydata after vtkCook: it is handed to SetInputData,            *)
(* AddInputData, GetBounds and ShallowCopy (as the source), none of which  *)
(* changes its points or cells.                                            *)
InputAfterCookInPlace(e, p, m) ==
    IF e = "VtkIdentityEffect" THEN m ELSE [m EXCEPT !.polys = m.tris]
InputAfterCook(e, p, m) == m

(* The statuses vtkCook can return: every registered effect returns        *)
(* kOfxStatOK; the stub may fail.                                          *)
CookStatuses(e) ==
    IF e = StubEffect THEN {kOfxStatOK, kOfxStatFailed} ELSE {kOfxStatOK}

CookFilter ==
    /\ dstate = "Cooking"
    /\ effect # VolumeSampler
    /\ \E st \in CookStatuses(effect) :
        /\ cookCalls' = cookCalls + 1
        /\ output' = FilterOutput(effect, params, input)
        /\ input' = InputAfterCook(effect, params, input)
        /\ cookStatus' = st
        /\ reported' = ReportedStatus(st)
        /\ dstate' = AfterCook(st)
    /\ UNCHANGED <<effect, params, identityCalls, isIdentityResult, declared,
                   identityOutput, samplerVars, historyVars>>

---------------------------------------------------------------------------
(* VtkVolumePointSamplerEffect::vtkCook and vtkCook_inner.                 *)

(* Entry up to the loop: bounds, predicate, output arrays, generators. *)
CookBegin ==
    /\ dstate = "Cooking"
    /\ effect = VolumeSampler
    /\ pc = "idle"
    /\ cookCalls' = cookCalls + 1
    /\ pred' = BuildPredicate(input, params.auto_simplify)
    /\ points' = SetNumberOfTuples(NewArray, N)
    /\ distance_arr' = SetNumberOfTuples(NewArray, N)
    /\ output' = [kind |-> "pointset", mesh |-> NullMesh]
    /\ gen' = NewGenerator(gen)
    /\ i' = 0
    /\ iteration_count' = 0
    /\ pc' = "loop"
    /\ input' = InputAfterCook(effect, params, input)
    /\ UNCHANGED <<dstate, effect, params, identityCalls, isIdentityResult,
                   cookStatus, reported, declared, identityOutput, cand,
                   draws, evals, warning, historyVars>>

(* One iteration of the for loop, first half: the loop condition holds,   *)
(* x, y and z are drawn and the distance is evaluated.                     *)
DrawCandidate ==
    /\ pc = "loop"
    /\ LoopGuard(i, iteration_count, N)
    /\ \E u \in VtkDraws(params.distribute_uniformly) :
        LET bounds == GetBounds(input)
            uniformly == params.distribute_uniformly
            rx == get_random_uniform(uniformly, gen, u[1], 0, bounds[1], bounds[2])
            ry == get_random_uniform(uniformly, rx.gen, u[2], 1, bounds[3], bounds[4])
            rz == get_random_uniform(uniformly, ry.gen, u[3], 2, bounds[5], bounds[6])
            p == <<rx.value, ry.value, rz.value>>
        IN  /\ gen' = rz.gen
            /\ draws' = draws + 3
            /\ evals' = evals + 1
            /\ cand' = [p |-> p, d |-> EvaluateFunction(pred, p)]
    /\ pc' = "test"
    /\ UNCHANGED <<dispatcherVars, pred, points, distance_arr, i,
                   iteration_count, warning, historyVars>>

(* Second half: the test of the distance, the stores, iteration_count++. *)
TestCandidate ==
    /\ pc = "test"
    /\ IF Accepts(cand.d)
       THEN /\ points' = SetValue(points, i, cand.p)
            /\ distance_arr' = SetValue(distance_arr, i, cand.d)
            /\ i' = i + 1
       ELSE UNCHANGED <<points, distance_arr, i>>
    /\ iteration_count' = iteration_count + 1
    /\ cand' = NoCandidate
    /\ pc' = "loop"
    /\ UNCHANGED <<dispatcherVars, pred, gen, draws, evals, warning,
                   historyVars>>

Outcome(st, pts, dist, warn) ==
    [status |-> st, points |-> pts, distance |-> dist, warning |-> warn]

(* After the loop: the warning and the truncation, then the return, which  *)
(* takes the dispatcher to Done.                                           *)
CookEnd ==
    /\ pc = "loop"
    /\ ~LoopGuard(i, iteration_count, N)
    /\ IF GaveUp(i, N)
       THEN /\ warning' = <<iteration_count, i>>
            /\ points' = SetNumberOfTuples(points, FinalLength(i, iteration_count))
            /\ distance_arr' =
                    SetNumberOfTuples(distance_arr, FinalLength(i, iteration_count))
       ELSE UNCHANGED <<warning, points, distance_arr>>
    /\ cookStatus' = CookStatus(i, N)
    /\ reported' = ReportedStatus(cookStatus')
    /\ dstate' = AfterCook(cookStatus')
    /\ pc' = "idle"
    /\ zeroOutcome' = IF N = 0
                      THEN Outcome(cookStatus', points', distance_arr', warning')
                      ELSE zeroOutcome
    /\ UNCHANGED <<effect, params, input, output, identityCalls, cookCalls,
                   isIdentityResult, declared, identityOutput, pred, gen, i,
                   iteration_count, cand, draws, evals, uniformRef>>

---------------------------------------------------------------------------
Next ==
    \/ Request
    \/ Release
    \/ CheckIdentity
    \/ Identity
    \/ CookFilter
    \/ CookBegin
    \/ DrawCandidate
    \/ TestCandidate
    \/ CookEnd

Spec == Init /\ [][Next]_vars

(* Repeated uniform cooks of the volume sampler, one of whose outcomes is  *)
(* remembered and compared with every later cook of the same request.      *)
RepeatMeshes == {m \in Meshes : m.polys \in {0, 100} \/ m.tris = 1200}

RequestUniform ==
    \E p \in ParamsOf(VolumeSampler) : \E m \in RepeatMeshes :
        /\ p.distribute_uniformly
        /\ BeginRequest(VolumeSampler, p, m)

Remember ==
    /\ dstate = "Done"
    /\ uniformRef = NoRef
    /\ uniformRef' = [input |-> input, params |-> params, status |-> reported,
                      points |-> points, distance |-> distance_arr,
                      later |-> FALSE]
    /\ UNCHANGED <<dispatcherVars, samplerVars, zeroOutcome>>

NextRepeat ==
    \/ RequestUniform
    \/ CheckIdentity
    \/ CookBegin
    \/ DrawCandidate
    \/ TestCandidate
    \/ CookEnd
    \/ Remember
    \/ Release

SpecRepeat == Init /\ [][NextRepeat]_vars

(* A caller that invokes cook whatever the identity check would say, on    *)
(* the effects that define an identity check.                              *)
CheckableEffects ==
    {"VtkDecimateProEffect", "VtkQuadricDecimationEffect", "VtkFillHolesEffect",
     "VtkIdentityEffect"}

RequestCheckable ==
    \E e \in CheckableEffects : \E p \in ParamsOf(e) : \E m \in Meshes :
        BeginRequest(e, p, m)

CookAnyway ==
    /\ dstate = "CheckIdentity"
    /\ dstate' = "Cooking"
    /\ UNCHANGED <<effect, params, input, output, identityCalls, cookCalls,
                   isIdentityResult, cookStatus, reported, declared,
                   identityOutput, samplerVars, historyVars>>

NextDirect ==
    \/ RequestCheckable
    \/ CookAnyway
    \/ CookFilter
    \/ Release

SpecDirect == Init /\ [][NextDirect]_vars

(* The loop of vtkCook_inner with counters of full width.  The host may    *)
(* hand any int as NumberOfPoints; the requests here take the ends of the  *)
(* declared range, its default, and values around the largest N whose      *)
(* tenfold is an int.  Only the counters are followed: the first and last  *)
(* SingleSteps iterations one by one, the iterations in between in one     *)
(* step.                                                                   *)
WideCounts == {1, 200, 1000000, 214748364, 214748365, 429496730}

WideMesh == [polys |-> 100, tris |-> 100, radius |-> 1]

RequestWide ==
    \E n \in WideCounts :
        BeginRequest(VolumeSampler,
                     [DefaultParams EXCEPT !.number_of_points = n,
                                           !.distribute_uniformly = TRUE],
                     WideMesh)

(* i < number_of_points && iteration_count < 10*number_of_points, for the  *)
(* value the product has in a build where it wraps.                        *)
WideLoopGuard(ii, iteration, number_of_points) ==
    ii < number_of_points /\ iteration < Times10Int32(number_of_points).value

(* The numbers of iterations one step may take from attempt count t.       *)
WideChunks(t, budget) ==
    {k \in {1, budget - t - SingleSteps} :
        /\ k >= 1
        /\ k <= budget - t
        /\ k = 1 => (t < SingleSteps \/ t >= budget - SingleSteps)}

(* k iterations of the loop, a of them accepting their candidate: the      *)
(* loop condition held before each of them.                                *)
WideIterate ==
    /\ pc = "loop"
    /\ WideLoopGuard(i, iteration_count, N)
    /\ \E k \in WideChunks(iteration_count, Times10Int32(N).value) :
        \E a \in {0, 1, N - i} :
            /\ a <= k
            /\ a <= N - i
            /\ i' = i + a
            /\ iteration_count' = iteration_count + k
    /\ UNCHANGED <<dispatcherVars, pc, pred, points, distance_arr, gen, cand,
                   draws, evals, warning, historyVars>>

(* The signed overflow of 10*number_of_points is undefined: besides the    *)
(* build in which the product wraps, there is the build in which it traps  *)
(* and the process ends.                                                   *)
WideTrap ==
    /\ pc = "loop"
    /\ ~Times10Int32(N).fits
    /\ pc' = "trapped"
    /\ UNCHANGED <<dispatcherVars, pred, points, distance_arr, gen, i,
                   iteration_count, cand, draws, evals, warning, historyVars>>

WideCookEnd ==
    /\ pc = "loop"
    /\ ~WideLoopGuard(i, iteration_count, N)
    /\ IF GaveUp(i, N)
       THEN /\ warning' = <<iteration_count, i>>
            /\ points' = SetNumberOfTuples(points, FinalLength(i, iteration_count))
            /\ distance_arr' =
                    SetNumberOfTuples(distance_arr, FinalLength(i, iteration_count))
       ELSE UNCHANGED <<warning, points, distance_arr>>
    /\ cookStatus' = CookStatus(i, N)
    /\ reported' = ReportedStatus(cookStatus')
    /\ dstate' = AfterCook(cookStatus')
    /\ pc' = "idle"
    /\ UNCHANGED <<effect, params, input, output, identityCalls, cookCalls,
                   isIdentityResult, declared, identityOutput, pred, gen, i,
                   iteration_count, cand, draws, evals, historyVars>>

NextInt32 ==
    \/ RequestWide
    \/ CheckIdentity
    \/ CookBegin
    \/ WideIterate
    \/ WideTrap
    \/ WideCookEnd
    \/ Release

SpecInt32 == Init /\ [][NextInt32]_vars

(* isIdentity and cook are synchronous calls: once the host has made a     *)
(* request, the identity check and the cook run on until they return.      *)
CookStep == CookFilter \/ CookBegin \/ DrawCandidate \/ TestCandidate \/ CookEnd
DispatchStep == CheckIdentity \/ Identity \/ CookStep

FairSpec == Spec /\ WF_vars(DispatchStep)

---------------------------------------------------------------------------
(* Properties of the volume sampler's rejection loop.                      *)

(* The dispatcher is in Done after a cook of the volume sampler. *)
SamplerReturned == dstate = "Done" /\ effect = VolumeSampler

(* The accepted count never passes N and the attempt count never passes   *)
(* 10*N; every candidate evaluated advances the attempt count; a further   *)
(* attempt is possible exactly while i < N and t < 10*N, and the loop is   *)
(* left exactly when i = N or t = 10*N.                                    *)
C1_LoopBounded ==
    /\ i <= N
    /\ iteration_count <= 10 * N
    /\ evals <= 10 * N
    /\ pc = "loop" =>
        /\ evals = iteration_count
        /\ ENABLED DrawCandidate <=> (i < N /\ iteration_count < 10 * N)
        /\ ENABLED CookEnd <=> (i = N \/ iteration_count = 10 * N)
    /\ pc = "test" =>
        /\ evals = iteration_count + 1
        /\ ENABLED TestCandidate

(* C1: the rejection loop always terminates.  For every N >= 0 and every   *)
(* sequence of inside/outside outcomes the loop is bounded as above, so at *)
(* most 10*N candidates are evaluated in one cook, and a cook that has     *)
(* entered the loop leaves it and returns.                                 *)
C1_Terminates == [](C1_LoopBounded) /\ ((pc = "loop") ~> (pc = "idle"))

C1_BudgetExhausted ==
    /\ pc = "loop"
    /\ N >= 1
    /\ i < N
    /\ iteration_count = 10 * N
    /\ ~ENABLED DrawCandidate

(* C2: when the cook has returned, the point array and the distance array  *)
(* have the same length, the accepted count i, and every slot of both was  *)
(* written; i is N after a full loop and less than N, with the budget      *)
(* spent, otherwise.                                                       *)
C2_OutputLength ==
    SamplerReturned =>
        /\ points.len = i
        /\ distance_arr.len = i
        /\ FullyWritten(points)
        /\ FullyWritten(distance_arr)
        /\ i <= N
        /\ i < N => iteration_count = 10 * N

C2_Truncated ==
    /\ SamplerReturned
    /\ 0 < i
    /\ i < N
    /\ points.len = i

(* Slot k < i of the point array holds a point whose signed distance is   *)
(* negative, slot k of the distance array holds the distance of that same  *)
(* point, and no slot from i on is written.                                *)
C3_Stored ==
    /\ DOMAIN points.data = 0..(i - 1)
    /\ DOMAIN distance_arr.data = 0..(i - 1)
    /\ \A k \in 0..(i - 1) :
        /\ distance_arr.data[k] < 0
        /\ distance_arr.data[k] = EvaluateFunction(pred, points.data[k])
    /\ pc = "test" => cand.d = EvaluateFunction(pred, cand.p)

(* The step that tests a candidate stores it and its distance at index i   *)
(* and advances i when the distance is negative, leaves the arrays and i   *)
(* alone when it is not, and advances the attempt count either way.        *)
C3_Step ==
    pc = "test" =>
        /\ iteration_count' = iteration_count + 1
        /\ IF cand.d < 0
           THEN /\ i' = i + 1
                /\ points'.data[i] = cand.p
                /\ distance_arr'.data[i] = cand.d
                /\ \A k \in 0..(i - 1) :
                    /\ points'.data[k] = points.data[k]
                    /\ distance_arr'.data[k] = distance_arr.data[k]
           ELSE /\ i' = i
                /\ points' = points
                /\ distance_arr' = distance_arr

(* C3: every stored point was a candidate with a strictly negative signed  *)
(* distance; index k < i holds the k-th accepted candidate and, in the     *)
(* distance array, that candidate's distance; a candidate with distance    *)
(* >= 0 is never stored and never advances i; the attempt count advances   *)
(* on every candidate.                                                     *)
C3_AcceptedInside == [](C3_Stored) /\ [][C3_Step]_vars

C3_TwoAcceptedOneRejected ==
    /\ pc = "loop"
    /\ i = 2
    /\ iteration_count > 2
    /\ points.data[0] # points.data[1]
    /\ distance_arr.data[0] # distance_arr.data[1]

(* C4: a short result is a success.  The cook of the volume sampler always *)
(* returns kOfxStatOK; after a loop that ended with i < N the host gets    *)
(* kOfxStatOK, arrays of length i and the warning with the attempt count   *)
(* and i.                                                                  *)
C4_ShortIsSuccess ==
    SamplerReturned =>
        /\ cookStatus = kOfxStatOK
        /\ reported = kOfxStatOK
        /\ i < N =>
            /\ warning = <<iteration_count, i>>
            /\ points.len = i
            /\ distance_arr.len = i
        /\ i >= N => warning = NoWarning

C4_ShortUniform ==
    /\ SamplerReturned
    /\ params.distribute_uniformly
    /\ i < N
    /\ reported = kOfxStatOK
    /\ warning # NoWarning

(* A cook asked for at least one point ended with none accepted, and a     *)
(* cook asked for zero points has been seen before.                        *)
ExhaustedEmptyAfterZero ==
    /\ SamplerReturned
    /\ N >= 1
    /\ i = 0
    /\ zeroOutcome # NoOutcome

(* C5 as claimed: the returned status and output of a cook that exhausted  *)
(* its budget with nothing accepted differ from those of a cook asked for  *)
(* zero points.                                                            *)
C5_DistinguishableByStatusOrOutput ==
    ExhaustedEmptyAfterZero =>
        <<cookStatus, points, distance_arr>> #
            <<zeroOutcome.status, zeroOutcome.points, zeroOutcome.distance>>

(* C5 as amended: the two cooks return the same status, kOfxStatOK, and    *)
(* the same empty point and distance arrays; they differ only in the       *)
(* warning printed, which the exhausted cook prints with its 10*N attempts *)
(* and the cook asked for zero points does not print.                      *)
C5_DistinguishableByWarningOnly ==
    ExhaustedEmptyAfterZero =>
        /\ cookStatus = zeroOutcome.status
        /\ cookStatus = kOfxStatOK
        /\ points = zeroOutcome.points
        /\ distance_arr = zeroOutcome.distance
        /\ points.len = 0
        /\ zeroOutcome.warning = NoWarning
        /\ warning = <<10 * N, 0>>

C5_ExhaustedEmptyAfterZero ==
    /\ ExhaustedEmptyAfterZero
    /\ input.polys > 0
    /\ iteration_count = 10 * N

(* C6: a cook of the volume sampler asked for zero points returns          *)
(* kOfxStatOK with an empty point array and an empty distance array, draws *)
(* no candidate, evaluates the predicate never and prints no warning.      *)
C6_ZeroPoints ==
    (effect = VolumeSampler /\ N = 0) =>
        /\ draws = 0
        /\ evals = 0
        /\ iteration_count = 0
        /\ pc # "test"
        /\ warning = NoWarning
        /\ points.len = 0
        /\ distance_arr.len = 0
        /\ DOMAIN points.data = {}
        /\ DOMAIN distance_arr.data = {}
        /\ dstate = "Done" => (cookStatus = kOfxStatOK /\ reported = kOfxStatOK)

C6_ZeroPointsReturned ==
    /\ SamplerReturned
    /\ N = 0
    /\ cookCalls = 1
    /\ input.polys > 100
    /\ params.auto_simplify

(* C7: for N >= 1, a loop that ends with fewer than N accepted points has  *)
(* made exactly 10*N attempts (and evaluated 10*N candidates of three      *)
(* draws each); when the predicate is negative nowhere (no faces, or no    *)
(* inside volume) the cook makes exactly 10*N attempts and returns         *)
(* kOfxStatOK with empty arrays.                                           *)
NoInside == pred.faces = 0 \/ pred.radius = 0

C7_ExactBudget ==
    (SamplerReturned /\ N >= 1) =>
        /\ i < N =>
            /\ iteration_count = 10 * N
            /\ evals = 10 * N
            /\ draws = 30 * N
            /\ warning = <<10 * N, i>>
        /\ NoInside =>
            /\ i = 0
            /\ iteration_count = 10 * N
            /\ points.len = 0
            /\ distance_arr.len = 0
            /\ cookStatus = kOfxStatOK
            /\ reported = kOfxStatOK

C7_NoFacesExhausted ==
    /\ SamplerReturned
    /\ N >= 1
    /\ input.polys = 0
    /\ iteration_count = 10 * N
    /\ points.len = 0

(* C8: a uniform cook of the volume sampler whose input mesh and           *)
(* parameters equal those of a remembered earlier uniform cook returns the *)
(* same status, point array and distance array, whatever cooks ran in      *)
(* between; every uniform cook enters its loop with the generator's        *)
(* initial state.                                                          *)
C8_Reproducible ==
    /\ (pc = "loop" /\ iteration_count = 0) => gen = AR_Seed
    /\ (SamplerReturned /\ uniformRef # NoRef
            /\ uniformRef.input = input /\ uniformRef.params = params) =>
        /\ uniformRef.status = reported
        /\ uniformRef.points = points
        /\ uniformRef.distance = distance_arr

C8_SameRequestAgain ==
    /\ SamplerReturned
    /\ uniformRef.later
    /\ uniformRef.input = input
    /\ uniformRef.params = params
    /\ params.distribute_uniformly
    /\ points.len = 2
    /\ iteration_count > 2

---------------------------------------------------------------------------
(* Properties of the dispatcher.                                           *)

(* C9: when isIdentity has returned true, cook is never called in the      *)
(* request, the identity path can always be taken, and in Done the output  *)
(* is the input mesh (same points and cells) and the status is             *)
(* kOfxStatOK.                                                             *)
C9_IdentityFastPath ==
    (identityCalls = 1 /\ isIdentityResult) =>
        /\ cookCalls = 0
        /\ cookStatus = NoStatus
        /\ pc = "idle"
        /\ evals = 0
        /\ dstate \in {"Identity", "Done"}
        /\ dstate = "Identity" => ENABLED Identity
        /\ dstate = "Done" =>
            /\ output = [kind |-> "mesh", mesh |-> input]
            /\ reported = kOfxStatOK

C9_IdentityDone ==
    /\ dstate = "Done"
    /\ isIdentityResult
    /\ effect = "VtkDecimateProEffect"
    /\ params.value = 1
    /\ input.polys > 0
    /\ cookCalls = 0

(* Cook is called only after isIdentity has returned false, and at most   *)
(* once in a request; a request in Cooking can always take a step of the   *)
(* cook; in Done cook has been called exactly once and the status handed   *)
(* to the host is the status cook returned.                                *)
C10_CookingPath ==
    /\ cookCalls > 0 => (identityCalls = 1 /\ ~isIdentityResult)
    /\ cookCalls <= 1
    /\ identityCalls <= 1
    /\ dstate = "Cooking" => (identityCalls = 1 /\ ~isIdentityResult /\ ENABLED CookStep)
    /\ (identityCalls = 1 /\ ~isIdentityResult) =>
        /\ dstate \in {"Cooking", "Done"}
        /\ dstate = "Done" =>
            /\ cookCalls = 1
            /\ cookStatus # NoStatus
            /\ reported = cookStatus

(* C10: on a request whose isIdentity returned false the identity check    *)
(* precedes cook, cook is called exactly once (never again, also after a   *)
(* failure), the request reaches Done, and the status handed to the host   *)
(* is the status cook returned.                                            *)
C10_CookedOnce == [](C10_CookingPath) /\ ((dstate = "Cooking") ~> (dstate = "Done"))

C10_FailureReportedOnce ==
    /\ dstate = "Done"
    /\ identityCalls = 1
    /\ ~isIdentityResult
    /\ cookCalls = 1
    /\ cookStatus = kOfxStatFailed
    /\ reported = kOfxStatFailed

---------------------------------------------------------------------------
(* Properties of the effect contract.                                      *)

(* C11: identity agreement.  For every effect that defines an identity     *)
(* check and every parameter assignment for which the check returns true,  *)
(* a cook under that assignment returns an output mesh with the points and *)
(* cells of the input, for every input mesh, meshes with non-triangular    *)
(* faces included.                                                         *)
C11_IdentityAgreement ==
    (dstate = "Done" /\ cookCalls = 1 /\ effect \in CheckableEffects
        /\ vtkIsIdentity(effect, params)) =>
        output = [kind |-> "mesh", mesh |-> input]

C11_TriangulatedUnderIdentity ==
    /\ dstate = "Done"
    /\ cookCalls = 1
    /\ effect = "VtkDecimateProEffect"
    /\ params.value = 0
    /\ vtkIsIdentity(effect, params)
    /\ input.polys = 101
    /\ output.mesh.polys = 202
    /\ output.mesh # input

(* C12: the identity check is free of side effects.  Right after the       *)
(* check has returned, its result is the function of the parameter values, *)
(* nothing was printed, and the output mesh, the declared parameters and   *)
(* the sampler are as they were before the check.                          *)
C12_IdentityCheckPure ==
    (identityCalls = 1 /\ cookCalls = 0 /\ dstate \in {"Identity", "Cooking"}) =>
        /\ isIdentityResult = vtkIsIdentity(effect, params)
        /\ identityOutput = NoOutput
        /\ output = EmptyOutput
        /\ declared = vtkDescribe(effect)
        /\ params \in ParamsOf(effect)
        /\ input \in Meshes
        /\ warning = NoWarning
        /\ pc = "idle"

C12_FillHolesPrinted ==
    /\ identityCalls = 1
    /\ cookCalls = 0
    /\ dstate = "Identity"
    /\ effect = "VtkFillHolesEffect"
    /\ isIdentityResult
    /\ identityOutput = <<0, DBL_EPSILON>>

(* Every read of the set asks for a declared name under its declared kind. *)
KindsAgree(reads, decls) ==
    \A r \in reads : \E d \in decls : d.name = r.name /\ d.kind = r.kind

(* C13: every parameter read by the identity check or the cook of an       *)
(* effect was declared by the describe of that effect under the same name  *)
(* and with the kind asked for at the read, the kind of the declared       *)
(* default.                                                                *)
C13_ReadsMatchDeclarations ==
    /\ identityCalls = 1 => KindsAgree(IdentityReads(effect), declared)
    /\ cookCalls = 1 => KindsAgree(CookReads(effect), declared)

C13_FeatureAngleReadAsDouble ==
    /\ cookCalls = 1
    /\ dstate = "Done"
    /\ effect = "VtkFeatureEdgesEffect"
    /\ GetParam("Double", "FeatureAngle") \in CookReads(effect)
    /\ \E d \in declared : d.name = "FeatureAngle" /\ d.kind = "Integer"
    /\ \A d \in declared : d.name = "FeatureAngle" => d.kind # "Double"

(* C14: cook never changes its input mesh.  No step taken while the        *)
(* dispatcher is in Cooking changes the input mesh, so it is the same when *)
(* cook returns as when cook was called; when the output is a shallow copy *)
(* of the input, output and input hold the same points and cells.          *)
C14_InputUntouched ==
    /\ [][dstate = "Cooking" => input' = input]_vars
    /\ []((dstate = "Done" /\ cookCalls = 1 /\ effect = "VtkIdentityEffect") =>
            output = [kind |-> "mesh", mesh |-> input])

C14_DecimatedForPredicate ==
    /\ SamplerReturned
    /\ cookCalls = 1
    /\ pred.source = "decimated"
    /\ input.polys = 600
    /\ input.tris = 1200
    /\ i > 0

---------------------------------------------------------------------------
(* Properties of the volume sampler's predicate.                           *)

(* The volume sampler has built its predicate in this request. *)
PredicateBuilt == effect = VolumeSampler /\ cookCalls = 1

(* C15: the simplification branch is entered exactly when autoSimplify is  *)
(* true and the boundary has more than 100 faces: never with exactly 100   *)
(* faces, always with 101 and autoSimplify; with autoSimplify false the    *)
(* predicate is built from the unmodified input for every face count.      *)
C15_SimplifyThreshold ==
    PredicateBuilt =>
        /\ pred.entered <=> (params.auto_simplify /\ input.polys > 100)
        /\ input.polys = 100 => ~pred.entered
        /\ (params.auto_simplify /\ input.polys = 101) =>
            /\ pred.entered
            /\ pred.input_polycount = input.tris
            /\ pred.target_polycount > 1000
        /\ ~params.auto_simplify =>
            /\ pred.source = "input"
            /\ pred.faces = input.polys
            /\ pred.radius = input.radius

C15_Entered101 ==
    /\ PredicateBuilt
    /\ pc = "loop"
    /\ params.auto_simplify
    /\ input.polys = 101
    /\ pred.entered

(* C16 as claimed: in the simplification branch the target face count is   *)
(* 1000 plus the square root of the triangulated face count F rounded to   *)
(* the nearest integer.                                                    *)
C16_TargetRounded ==
    (PredicateBuilt /\ pred.entered) =>
        pred.target_polycount = 1000 + RoundSqrt(input.tris)

(* C16 as amended: in the simplification branch the target face count is   *)
(* 1000 + k for the integer k with k*k <= F < (k+1)*(k+1), F the face      *)
(* count of the triangulated boundary: the square root is truncated.       *)
C16_TargetTruncated ==
    (PredicateBuilt /\ pred.entered) =>
        /\ pred.input_polycount = input.tris
        /\ \E k \in 0..64 :
            /\ k * k <= input.tris
            /\ input.tris < (k + 1) * (k + 1)
            /\ pred.target_polycount = 1000 + k

C16_RoundingWouldDiffer ==
    /\ PredicateBuilt
    /\ pred.entered
    /\ input.tris = 1200
    /\ pred.target_polycount = 1034
    /\ RoundSqrt(input.tris) = 35

(* C17: in the simplification branch, when the target is below the         *)
(* triangulated face count the predicate is built from a simplified mesh   *)
(* of about target faces (within a tenth of it); otherwise it is built     *)
(* from the original input.                                                *)
C17_SimplifiedTowardTarget ==
    (PredicateBuilt /\ pred.entered) =>
        IF pred.target_polycount < pred.input_polycount
        THEN /\ pred.source = "decimated"
             /\ 10 * pred.faces >= 9 * pred.target_polycount
             /\ 10 * pred.faces <= 11 * pred.target_polycount
        ELSE /\ pred.source = "input"
             /\ pred.faces = input.polys

C17_FewFacesLeft ==
    /\ PredicateBuilt
    /\ pred.source = "decimated"
    /\ input.tris = 1200
    /\ pred.target_polycount = 1034
    /\ pred.faces = 166

(* The descriptor's default lies in its inclusive range, component-wise. *)
InRange(d) ==
    \A k \in DOMAIN d.default :
        DecLeq(d.min[k], d.default[k]) /\ DecLeq(d.default[k], d.max[k])

(* C18: every range declared by the describe of the effect of a request,   *)
(* whichever registered effect it is, has min <= default <= max,           *)
(* component-wise for the integer triple.                                  *)
C18_DefaultsInRange ==
    /\ dstate # "Idle" => declared = vtkDescribe(effect)
    /\ \A d \in declared : d.ranged => InRange(d)

C18_TripleDeclared ==
    /\ dstate = "Done"
    /\ effect = "VtkQuadricClusteringEffect"
    /\ \E d \in declared :
        /\ d.ranged
        /\ d.kind = "IntegerTriple"
        /\ Len(d.default) = 3
        /\ InRange(d)

(* C19: with autoSimplify true the boundary is decimated exactly when the  *)
(* input has more than 100 faces and its triangulated face count F has     *)
(* 1000 + floor(sqrt(F)) < F, that is F >= 1033; with 101 to 1032          *)
(* triangulated faces the branch is entered and the predicate is built     *)
(* from the original, untriangulated input.                                *)
C19_DecimatesFrom1033 ==
    (PredicateBuilt /\ params.auto_simplify) =>
        /\ pred.source = "decimated" <=> (input.polys > 100 /\ input.tris >= 1033)
        /\ pred.source = "decimated" <=>
            (input.polys > 100 /\
                \E k \in 0..64 : /\ k * k <= input.tris
                                 /\ input.tris < (k + 1) * (k + 1)
                                 /\ 1000 + k < input.tris)
        /\ (input.polys > 100 /\ input.tris \in 101..1032) =>
            /\ pred.entered
            /\ pred.source = "input"
            /\ pred.faces = input.polys
            /\ pred.radius = input.radius

C19_NotDecimated1032 ==
    /\ PredicateBuilt
    /\ params.auto_simplify
    /\ input.tris = 1032
    /\ pred.entered
    /\ pred.target_polycount = 1032
    /\ pred.source = "input"

(* The additive recurrence after k advances from its initial state. *)
RECURSIVE AR_After(_)
AR_After(k) == IF k = 0 THEN AR_Seed ELSE AR_Next(AR_After(k - 1))

(* C20: with distributeUniformly true every attempt advances the additive  *)
(* recurrence three times, accepted or not: before attempt t the generator *)
(* has advanced 3t times, and the candidate of attempt t takes component 0 *)
(* of step 3t+1, component 1 of step 3t+2 and component 2 of step 3t+3.    *)
C20_ThreeAdvancesPerAttempt ==
    (effect = VolumeSampler /\ params.distribute_uniformly /\ pc \in {"loop", "test"}) =>
        LET bounds == GetBounds(input)
            t == iteration_count
        IN  /\ draws = 3 * evals
            /\ pc = "loop" => gen = AR_After(3 * t)
            /\ pc = "test" =>
                /\ gen = AR_After(3 * t + 3)
                /\ cand.p =
                    << AR_GetRangeValue(AR_After(3 * t + 1), 0, bounds[1], bounds[2]),
                       AR_GetRangeValue(AR_After(3 * t + 2), 1, bounds[3], bounds[4]),
                       AR_GetRangeValue(AR_After(3 * t + 3), 2, bounds[5], bounds[6]) >>

C20_AfterAcceptedAndRejected ==
    /\ effect = VolumeSampler
    /\ params.distribute_uniformly
    /\ pc = "test"
    /\ iteration_count >= 2
    /\ i >= 1
    /\ i < iteration_count
    /\ gen # AR_After(iteration_count + 1)

---------------------------------------------------------------------------
(* Properties of the loop's int arithmetic.                                *)

(* n lies in the range vtkDescribe declared for NumberOfPoints. *)
InDeclaredRange(n) ==
    \E d \in declared :
        /\ d.name = "NumberOfPoints"
        /\ d.ranged
        /\ DecLeq(d.min[1], <<n, 0>>)
        /\ DecLeq(<<n, 0>>, d.max[1])

(* 10 * n reduced modulo 2^32 into the range of an int, for the n above    *)
(* 214748364 that are requested, written without the product itself.      *)
WrappedTenfold(n) ==
    IF n >= 429496730
    THEN 10 * (n - 429496729) - 6
    ELSE (10 * (n - 214748364) - 2147483647) - 9

(* For every N in the declared range the budget 10*N is an int, at most    *)
(* 10^7, and the counters stay within 0..N and 0..10*N, so within an int,  *)
(* at every step; the product is an int exactly up to N = 214748364.       *)
C21_InRange ==
    (effect = VolumeSampler /\ cookCalls = 1) =>
        /\ Times10Int32(N).fits <=> N <= 214748364
        /\ InDeclaredRange(N) =>
            /\ N >= 1
            /\ N <= 1000000
            /\ Times10Int32(N).fits
            /\ Times10Int32(N).value = 10 * N
            /\ Times10Int32(N).value <= INT_MAX
            /\ 0 <= i
            /\ i <= N
            /\ 0 <= iteration_count
            /\ iteration_count <= 10 * N
            /\ iteration_count <= INT_MAX
            /\ pc # "trapped"

===========================================================================
